---- MODULE Spec2Model ----
(***************************************************************************)
(* Editing / persistence engine of Fuse Bead Studio (hook useEditor and   *)
(* utils/storage).  One action per hook operation; each action is the     *)
(* event handler followed by the React re-render and the autosave effect. *)
(***************************************************************************)
EXTENDS Integers, Sequences, FiniteSets, TLC

(* ------------------------------ bounds -------------------------------- *)
MaxHist  == 1      \* longest past a new action is pushed onto
MaxClock == 1      \* last value of the millisecond clock
MaxIds   == 1      \* number of ids generateId can hand out
MaxCells == 3      \* longest cell array handed to encodeGrid
MaxB64   == 4      \* longest string handed to decodeGrid
MaxSide  == 3      \* largest width and height handed to findUnstableBeads

(* ------------------------- program constants -------------------------- *)
MAX_DESIGNS == 2                       \* gallery cap (scaled)
Chunk == 2                             \* 0x8000 (scaled)
BOARD_SIZES == << [width |-> 1, height |-> 1], [width |-> 2, height |-> 1] >>
DEFAULT_BOARD_SIZE == BOARD_SIZES[2]
PALETTE == {1, 2}

NoId   == 0        \* null design id
NoRec  == [id |-> NoId]                \* absent localStorage key
Hole   == -1       \* empty array slot
Undef  == -2       \* undefined array element
Pad    == 64       \* '='
BadChar == 65      \* a character outside the base64 alphabet
Tools  == {"paint", "erase", "move"}
NoTarget == -3     \* getStrokeTargetValue returning null

(* ------------------------------ helpers ------------------------------- *)
Min(a, b) == IF a < b THEN a ELSE b

\* new Uint8Array(cells): every element modulo 256, holes/undefined as 0
ToUint8(v) == IF v < 0 THEN 0 ELSE v % 256

RECURSIVE Btoa(_)
Btoa(b) ==
  IF Len(b) = 0 THEN << >>
  ELSE IF Len(b) = 1 THEN << b[1] \div 4, (b[1] % 4) * 16, Pad, Pad >>
  ELSE IF Len(b) = 2 THEN
      << b[1] \div 4, (b[1] % 4) * 16 + b[2] \div 16, (b[2] % 16) * 4, Pad >>
  ELSE << b[1] \div 4, (b[1] % 4) * 16 + b[2] \div 16,
          (b[2] % 16) * 4 + b[3] \div 64, b[3] % 64 >>
       \o Btoa(SubSeq(b, 4, Len(b)))

\* variant: the loop steps one byte past each chunk
RECURSIVE ChunksSkipping(_, _)
ChunksSkipping(bytes, i) ==
  IF i > Len(bytes) THEN << >>
  ELSE SubSeq(bytes, i, Min(i + Chunk - 1, Len(bytes)))
         \o ChunksSkipping(bytes, i + Chunk + 1)

\* binary += String.fromCharCode(...bytes.subarray(i, i + chunk))
RECURSIVE Chunks(_, _)
Chunks(bytes, i) ==
  IF i > Len(bytes) THEN << >>
  ELSE SubSeq(bytes, i, Min(i + Chunk - 1, Len(bytes))) \o Chunks(bytes, i + Chunk)

encodeGrid(cs) == Btoa(Chunks([k \in 1..Len(cs) |-> ToUint8(cs[k])], 1))

\* atob: forgiving-base64 decode; Failure stands for the thrown exception
AtobFailure == << -1 >>
StripPad(s) ==
  IF Len(s) % 4 = 0 /\ Len(s) >= 1 /\ s[Len(s)] = Pad
  THEN IF Len(s) >= 2 /\ s[Len(s) - 1] = Pad
       THEN SubSeq(s, 1, Len(s) - 2)
       ELSE SubSeq(s, 1, Len(s) - 1)
  ELSE s

RECURSIVE AtobBytes(_)
AtobBytes(d) ==
  IF Len(d) < 2 THEN << >>
  ELSE IF Len(d) = 2 THEN << d[1] * 4 + d[2] \div 16 >>
  ELSE IF Len(d) = 3 THEN
      << d[1] * 4 + d[2] \div 16, (d[2] % 16) * 16 + d[3] \div 4 >>
  ELSE << d[1] * 4 + d[2] \div 16, (d[2] % 16) * 16 + d[3] \div 4,
          (d[3] % 4) * 64 + d[4] >>
       \o AtobBytes(SubSeq(d, 5, Len(d)))

Atob(s) ==
  LET d == StripPad(s) IN
  IF Len(d) % 4 = 1 \/ \E k \in 1..Len(d) : d[k] \notin 0..63
  THEN AtobFailure
  ELSE AtobBytes(d)

\* variant: the exception of atob is not caught
decodeGridUncaught(b64) == Atob(b64)

decodeGrid(b64) ==
  LET binary == Atob(b64) IN
  IF binary = AtobFailure THEN << >> ELSE binary

(* ----------------------- utils/storage.ts ----------------------------- *)
\* ls = [records, index, currentId]; fail names the key class whose
\* setItem is rejected by the store during this operation.
FailKinds == {"none", "record", "index", "pointer"}

IndexOfId(index, id) ==
  IF \E k \in 1..Len(index) : index[k].id = id
  THEN CHOOSE k \in 1..Len(index) :
         index[k].id = id /\ \A j \in 1..(k - 1) : index[j].id # id
  ELSE 0

\* stable sort, updatedAt descending
RECURSIVE InsertDesc(_, _)
InsertDesc(sorted, e) ==
  IF Len(sorted) = 0 THEN << e >>
  ELSE IF sorted[Len(sorted)].updatedAt >= e.updatedAt THEN Append(sorted, e)
  ELSE Append(InsertDesc(SubSeq(sorted, 1, Len(sorted) - 1), e), sorted[Len(sorted)])

RECURSIVE SortDesc(_)
SortDesc(s) ==
  IF Len(s) = 0 THEN << >>
  ELSE InsertDesc(SortDesc(SubSeq(s, 1, Len(s) - 1)), s[Len(s)])

EntryOf(design) ==
  [id |-> design.id, width |-> design.width, height |-> design.height,
   updatedAt |-> design.updatedAt]

\* evaluates v once and hands it to F
Bind(v, F(_)) == F(v)

\* variant: the index is written in upsert order
saveDesignUnsorted(ls, design, fail) ==
  IF fail = "record" THEN [ls |-> ls, threw |-> TRUE]
  ELSE
    Bind([ls.records EXCEPT ![design.id] = design], LAMBDA recs1 :
    Bind(IndexOfId(ls.index, design.id), LAMBDA entryIndex :
    Bind(IF entryIndex > 0
         THEN [ls.index EXCEPT ![entryIndex] = EntryOf(design)]
         ELSE Append(ls.index, EntryOf(design)), LAMBDA sorted :
    Bind(SubSeq(sorted, MAX_DESIGNS + 1, Len(sorted)), LAMBDA overflow :
    Bind([i \in DOMAIN recs1 |->
            IF \E k \in 1..Len(overflow) : overflow[k].id = i
            THEN NoRec ELSE recs1[i]], LAMBDA recs2 :
      IF fail = "index"
      THEN [ls |-> [ls EXCEPT !.records = recs2], threw |-> TRUE]
      ELSE [ls |-> [ls EXCEPT !.records = recs2,
                              !.index = SubSeq(sorted, 1, Min(MAX_DESIGNS, Len(sorted)))],
            threw |-> FALSE])))))

\* returns [ls, threw]
saveDesign(ls, design, fail) ==
  IF fail = "record" THEN [ls |-> ls, threw |-> TRUE]
  ELSE
    Bind([ls.records EXCEPT ![design.id] = design], LAMBDA recs1 :
    Bind(IndexOfId(ls.index, design.id), LAMBDA entryIndex :
    Bind(SortDesc(IF entryIndex > 0
                  THEN [ls.index EXCEPT ![entryIndex] = EntryOf(design)]
                  ELSE Append(ls.index, EntryOf(design))), LAMBDA sorted :
    Bind(SubSeq(sorted, MAX_DESIGNS + 1, Len(sorted)), LAMBDA overflow :
    Bind([i \in DOMAIN recs1 |->
            IF \E k \in 1..Len(overflow) : overflow[k].id = i
            THEN NoRec ELSE recs1[i]], LAMBDA recs2 :
      IF fail = "index"
      THEN [ls |-> [ls EXCEPT !.records = recs2], threw |-> TRUE]
      ELSE [ls |-> [ls EXCEPT !.records = recs2,
                              !.index = SubSeq(sorted, 1, Min(MAX_DESIGNS, Len(sorted)))],
            threw |-> FALSE])))))

loadDesign(ls, id) == IF id \in DOMAIN ls.records THEN ls.records[id] ELSE NoRec

deleteDesign(ls, id, fail) ==
  LET recs1 == [ls.records EXCEPT ![id] = NoRec]
      keep(e) == e.id # id
  IN IF fail = "index"
     THEN [ls EXCEPT !.records = recs1]
     ELSE [ls EXCEPT !.records = recs1, !.index = SelectSeq(ls.index, keep)]

\* returns [ls, threw]
storageSetCurrentDesignId(ls, id, fail) ==
  IF id # NoId
  THEN IF fail = "pointer" THEN [ls |-> ls, threw |-> TRUE]
       ELSE [ls |-> [ls EXCEPT !.currentId = id], threw |-> FALSE]
  ELSE [ls |-> [ls EXCEPT !.currentId = NoId], threw |-> FALSE]

(* ------------------------- hooks/useEditor ---------------------------- *)
VARIABLES boardSize, cells, history, activeTool, activeColorId, isDrawing,
          currentDesignId, currentDesignIdRef, currentStroke,
          autosaveTimerRef, isDirtyRef, persistedSnapshot,
          timers, ls, now, nextId, mounted, last, ghost,
          callArg, callResult

vars == << boardSize, cells, history, activeTool, activeColorId, isDrawing,
           currentDesignId, currentDesignIdRef, currentStroke,
           autosaveTimerRef, isDirtyRef, persistedSnapshot,
           timers, ls, now, nextId, mounted, last, ghost,
           callArg, callResult >>

hookVars == << boardSize, cells, history, activeTool, activeColorId, isDrawing,
               currentDesignId, currentDesignIdRef, currentStroke,
               autosaveTimerRef, isDirtyRef, persistedSnapshot,
               timers, ls, now, nextId, mounted, last, ghost >>

TimerIds == 1..3
PreloadedIds == {MaxIds + 1, MaxIds + 2}
AllIds == 1..(MaxIds + 2)
Fraction == -7     \* a width or height that is a number but not an integer
\* Number.isSafeInteger: |n| <= 2^53 - 1; every integer TLC represents is below that
isSafeInteger(n) == n >= -2147483647 /\ n <= 2147483647

\* The hook's state as one record; the last fields describe the call in
\* progress (return value, outcome of the save it made, exception, whether
\* setCells/setBoardSize was called, whether a pending timer was cancelled).
Cur ==
  [boardSize |-> boardSize, cells |-> cells, history |-> history,
   activeTool |-> activeTool, activeColorId |-> activeColorId,
   isDrawing |-> isDrawing, currentDesignId |-> currentDesignId,
   currentDesignIdRef |-> currentDesignIdRef, currentStroke |-> currentStroke,
   autosaveTimerRef |-> autosaveTimerRef, isDirtyRef |-> isDirtyRef,
   persistedSnapshot |-> persistedSnapshot, timers |-> timers, ls |-> ls,
   now |-> now, nextId |-> nextId, mounted |-> mounted,
   ret |-> "void", save |-> "none", threw |-> "none", touched |-> FALSE,
   pushed |-> "none", stuck |-> FALSE, began |-> FALSE, cancelled |-> FALSE]

createBlankCells(size) == [k \in 1..(size.width * size.height) |-> 0]

createEmptyHistory == [past |-> << >>, future |-> << >>]

createSnapshot(size, nextCells) ==
  [width |-> size.width, height |-> size.height, gridB64 |-> encodeGrid(nextCells)]

isValidCellIndex(index, cellCount) == index >= 0 /\ index < cellCount

getStrokeTargetValue(tool, colorId) ==
  IF tool = "paint" THEN colorId
  ELSE IF tool = "erase" THEN 0
  ELSE NoTarget

clearAutosaveTimer(S) ==
  IF S.autosaveTimerRef # 0
  THEN [S EXCEPT !.timers = {t \in @ : t.id # S.autosaveTimerRef},
                 !.autosaveTimerRef = 0,
                 !.cancelled = @ \/ \E t \in S.timers : t.id = S.autosaveTimerRef]
  ELSE S

\* the storage write comes last and may throw
setCurrentDesignId(S, id, fail) ==
  Bind(storageSetCurrentDesignId(S.ls, id, fail), LAMBDA r :
    [S EXCEPT !.currentDesignIdRef = id, !.currentDesignId = id, !.ls = r.ls,
              !.threw = IF r.threw THEN "handler" ELSE @])

markPersistedSnapshot(S, size, nextCells) ==
  [S EXCEPT !.persistedSnapshot = createSnapshot(size, nextCells)]

\* variant: only the board size is compared
isStateDirtyBySize(snapshot, nextCells, nextSize) ==
  snapshot.width # nextSize.width \/ snapshot.height # nextSize.height

isStateDirty(snapshot, nextCells, nextSize) ==
  IF snapshot.width # nextSize.width \/ snapshot.height # nextSize.height
  THEN TRUE
  ELSE snapshot.gridB64 # encodeGrid(nextCells)

\* variant: the blank design keeps the undo/redo stacks
resetKeepingHistory(S, size) ==
  [markPersistedSnapshot(
     setCurrentDesignId([S EXCEPT !.boardSize = size,
                                  !.cells = createBlankCells(size),
                                  !.touched = TRUE],
                        NoId, "none"),
     size, createBlankCells(size))
   EXCEPT !.isDirtyRef = FALSE]

resetToBlankDesign(S, size) ==
  [markPersistedSnapshot(
     setCurrentDesignId([S EXCEPT !.boardSize = size,
                                  !.cells = createBlankCells(size),
                                  !.history = createEmptyHistory,
                                  !.touched = TRUE],
                        NoId, "none"),
     size, createBlankCells(size))
   EXCEPT !.isDirtyRef = FALSE]

IsJsInteger(v) == v # Fraction

\* [ok, size, decodedCells]
NotValidated == [ok |-> FALSE, size |-> DEFAULT_BOARD_SIZE, decodedCells |-> << >>]

\* variant: the decoded cell count is not compared with width * height
validateWithoutCount(design) ==
  IF ~IsJsInteger(design.width) \/ design.width <= 0 THEN NotValidated
  ELSE IF ~IsJsInteger(design.height) \/ design.height <= 0 THEN NotValidated
  ELSE
    Bind(design.width * design.height, LAMBDA expectedCells :
    Bind(decodeGrid(design.gridB64), LAMBDA decodedCells :
      IF ~isSafeInteger(expectedCells) \/ expectedCells <= 0 THEN NotValidated
      ELSE IF \E k \in 1..Len(decodedCells) :
                decodedCells[k] < 0 \/ decodedCells[k] > 255 THEN NotValidated
      ELSE [ok |-> TRUE,
            size |-> [width |-> design.width, height |-> design.height],
            decodedCells |-> decodedCells]))

validateLoadedDesign(design) ==
  IF ~IsJsInteger(design.width) \/ design.width <= 0 THEN NotValidated
  ELSE IF ~IsJsInteger(design.height) \/ design.height <= 0 THEN NotValidated
  ELSE
    Bind(design.width * design.height, LAMBDA expectedCells :
    Bind(decodeGrid(design.gridB64), LAMBDA decodedCells :
      IF ~isSafeInteger(expectedCells) \/ expectedCells <= 0 THEN NotValidated
      ELSE IF Len(decodedCells) # expectedCells THEN NotValidated
      ELSE IF \E k \in 1..Len(decodedCells) :
                decodedCells[k] < 0 \/ decodedCells[k] > 255 THEN NotValidated
      ELSE [ok |-> TRUE,
            size |-> [width |-> design.width, height |-> design.height],
            decodedCells |-> decodedCells]))

\* variant: the loaded grid is not recorded as the persisted snapshot
loadDesignToStateUnmarked(S, design, fail) ==
  Bind(validateLoadedDesign(design), LAMBDA validated :
    IF ~validated.ok THEN [S EXCEPT !.ret = "false"]
    ELSE
      Bind(setCurrentDesignId(
             [clearAutosaveTimer(S)
                EXCEPT !.boardSize = validated.size,
                       !.cells = validated.decodedCells,
                       !.history = createEmptyHistory, !.touched = TRUE],
             design.id, fail), LAMBDA S4 :
        IF S4.threw # "none" THEN S4
        ELSE [S4 EXCEPT !.isDirtyRef = FALSE, !.ret = "true"]))

loadDesignToState(S, design, fail) ==
  Bind(validateLoadedDesign(design), LAMBDA validated :
    IF ~validated.ok THEN [S EXCEPT !.ret = "false"]
    ELSE
      Bind(setCurrentDesignId(
             [markPersistedSnapshot(clearAutosaveTimer(S), validated.size,
                                    validated.decodedCells)
                EXCEPT !.boardSize = validated.size,
                       !.cells = validated.decodedCells,
                       !.history = createEmptyHistory, !.touched = TRUE],
             design.id, fail), LAMBDA S4 :
        IF S4.threw # "none" THEN S4
        ELSE [S4 EXCEPT !.isDirtyRef = FALSE, !.ret = "true"]))

\* variant: the snapshot is marked before the store has accepted the record
saveMarkingFirst(S, cl, fail) ==
  Bind(S.currentDesignIdRef = NoId, LAMBDA fresh :
  Bind(IF fresh THEN S.nextId ELSE S.currentDesignIdRef, LAMBDA idToUse :
  Bind(IF fresh
       THEN setCurrentDesignId([S EXCEPT !.nextId = @ + 1,
                                         !.stuck = S.nextId > MaxIds],
                               idToUse, fail)
       ELSE S, LAMBDA S1 :
    IF S1.threw # "none" THEN [S1 EXCEPT !.save = "threw"]
    ELSE
      Bind(loadDesign(S.ls, idToUse), LAMBDA existing :
      Bind(saveDesign(S1.ls,
                      [id |-> idToUse, width |-> cl.boardSize.width,
                       height |-> cl.boardSize.height,
                       gridB64 |-> encodeGrid(cl.cells),
                       createdAt |-> IF ~fresh /\ existing # NoRec
                                     THEN existing.createdAt ELSE S.now,
                       updatedAt |-> S.now],
                      fail), LAMBDA r :
        IF r.threw
        THEN [markPersistedSnapshot(S1, cl.boardSize, cl.cells)
                EXCEPT !.ls = r.ls, !.save = "failed", !.ret = "null"]
        ELSE [markPersistedSnapshot(S1, cl.boardSize, cl.cells)
                EXCEPT !.ls = r.ls, !.isDirtyRef = FALSE,
                       !.save = "ok", !.ret = "id"])))))

\* cl = the cells and boardSize of the render whose callback is running
saveCurrentDesign(S, cl, fail) ==
  Bind(S.currentDesignIdRef = NoId, LAMBDA fresh :
  Bind(IF fresh THEN S.nextId ELSE S.currentDesignIdRef, LAMBDA idToUse :
  Bind(IF fresh
       THEN setCurrentDesignId([S EXCEPT !.nextId = @ + 1,
                                         !.stuck = S.nextId > MaxIds],
                               idToUse, fail)
       ELSE S, LAMBDA S1 :
    IF S1.threw # "none" THEN [S1 EXCEPT !.save = "threw"]
    ELSE
      Bind(loadDesign(S.ls, idToUse), LAMBDA existing :
      Bind(saveDesign(S1.ls,
                      [id |-> idToUse, width |-> cl.boardSize.width,
                       height |-> cl.boardSize.height,
                       gridB64 |-> encodeGrid(cl.cells),
                       createdAt |-> IF ~fresh /\ existing # NoRec
                                     THEN existing.createdAt ELSE S.now,
                       updatedAt |-> S.now],
                      fail), LAMBDA r :
        IF r.threw
        THEN [S1 EXCEPT !.ls = r.ls, !.save = "failed", !.ret = "null"]
        ELSE [markPersistedSnapshot(S1, cl.boardSize, cl.cells)
                EXCEPT !.ls = r.ls, !.isDirtyRef = FALSE,
                       !.save = "ok", !.ret = "id"])))))

Closure(S) == [cells |-> S.cells, boardSize |-> S.boardSize]

\* variant: the flush reports success whatever the save returned
flushIgnoringSave(S, fail) ==
  Bind(clearAutosaveTimer(S), LAMBDA S1 :
    IF ~S1.isDirtyRef THEN [S1 EXCEPT !.ret = "true"]
    ELSE Bind(saveCurrentDesign(S1, Closure(S), fail), LAMBDA S2 :
           IF S2.threw # "none" THEN S2 ELSE [S2 EXCEPT !.ret = "true"]))

flushAutosave(S, fail) ==
  Bind(clearAutosaveTimer(S), LAMBDA S1 :
    IF ~S1.isDirtyRef THEN [S1 EXCEPT !.ret = "true"]
    ELSE Bind(saveCurrentDesign(S1, Closure(S), fail), LAMBDA S2 :
           IF S2.threw # "none" THEN S2
           ELSE [S2 EXCEPT !.ret = IF S2.ret = "id" THEN "true" ELSE "false"]))

\* variant: the open design is deleted like any other
deleteDesignByIdUnguarded(S, id, fail) ==
  [S EXCEPT !.ls = deleteDesign(S.ls, id, fail), !.ret = "true"]

deleteDesignById(S, id, fail) ==
  IF S.currentDesignIdRef = id THEN [S EXCEPT !.ret = "false"]
  ELSE [S EXCEPT !.ls = deleteDesign(S.ls, id, fail), !.ret = "true"]

loadDesignById(S, id, fail) ==
  Bind(flushAutosave(S, fail), LAMBDA S1 :
    IF S1.threw # "none" THEN S1
    ELSE IF S1.ret = "false" THEN S1
    ELSE Bind(loadDesign(S1.ls, id), LAMBDA design :
           IF design = NoRec THEN [S1 EXCEPT !.ret = "false"]
           ELSE loadDesignToState(S1, design, fail)))

createNewDesign(S, size, fail) ==
  Bind(flushAutosave(S, fail), LAMBDA S1 :
    IF S1.threw # "none" THEN S1
    ELSE IF S1.ret = "false" THEN S1
    ELSE [resetToBlankDesign(S1, size) EXCEPT !.ret = "true"])

resizeBoard(S, newSize, fail) == [createNewDesign(S, newSize, fail) EXCEPT !.ret = "void"]

\* setTimeout returns a handle no pending timer has
NewTimerId(S) ==
  CHOOSE i \in TimerIds :
    /\ i \notin {t.id : t \in S.timers}
    /\ \A j \in TimerIds : j \notin {t.id : t \in S.timers} => i <= j

\* Autosave + dirty state effect (cleanup of the previous run, then the body)
\* variant: a timer is armed without cancelling the pending one
AutosaveEffectKeepingTimer(S, fail) ==
  Bind(isStateDirty(S.persistedSnapshot, S.cells, S.boardSize), LAMBDA dirty :
  Bind([S EXCEPT !.isDirtyRef = dirty], LAMBDA S1 :
    IF ~dirty THEN S1
    ELSE IF S1.currentDesignId = NoId
    THEN Bind(saveCurrentDesign([S1 EXCEPT !.threw = "none"], Closure(S1), fail),
              LAMBDA S2 :
                [S2 EXCEPT !.threw = IF S2.threw # "none" THEN "effect" ELSE S1.threw,
                           !.ret = S1.ret])
    ELSE Bind(NewTimerId(S1), LAMBDA tid :
           [S1 EXCEPT !.timers = @ \cup {[id |-> tid,
                                          scheduledDesignId |-> S1.currentDesignId,
                                          cells |-> S1.cells,
                                          boardSize |-> S1.boardSize]},
                      !.autosaveTimerRef = tid])))

AutosaveEffect(S, fail) ==
  Bind(isStateDirty(S.persistedSnapshot, S.cells, S.boardSize), LAMBDA dirty :
  Bind(clearAutosaveTimer([S EXCEPT !.isDirtyRef = dirty]), LAMBDA S1 :
    IF ~dirty THEN S1
    ELSE IF S1.currentDesignId = NoId
    THEN Bind(saveCurrentDesign([S1 EXCEPT !.threw = "none"], Closure(S1), fail),
              LAMBDA S2 :
                [S2 EXCEPT !.threw = IF S2.threw # "none" THEN "effect" ELSE S1.threw,
                           !.ret = S1.ret])
    ELSE Bind(NewTimerId(S1), LAMBDA tid :
           [S1 EXCEPT !.timers = @ \cup {[id |-> tid,
                                          scheduledDesignId |-> S1.currentDesignId,
                                          cells |-> S1.cells,
                                          boardSize |-> S1.boardSize]},
                      !.autosaveTimerRef = tid])))

\* an exception thrown by an effect unmounts the tree (no error boundary)
Unmounted(S) == [clearAutosaveTimer(S) EXCEPT !.mounted = FALSE]

\* S0: the state rendered when the handler ran; S1: after the handler.
\* The effect runs when cells or boardSize were set or currentDesignId
\* changed, and once more when its own save assigned an id.
Render(S0, S1, fail) ==
  Bind(IF S1.touched \/ S1.currentDesignId # S0.currentDesignId
       THEN AutosaveEffect(S1, fail) ELSE S1, LAMBDA P1 :
  Bind(IF P1.threw # "effect" /\ P1.currentDesignId # S1.currentDesignId
       THEN AutosaveEffect(P1, fail) ELSE P1, LAMBDA P2 :
    IF P2.threw = "effect" THEN Unmounted(P2) ELSE P2))

(* --------------------------- editor logic ----------------------------- *)
\* [...prevCells]: empty slots become undefined
Spread(cs) == [k \in 1..Len(cs) |-> IF cs[k] = Hole THEN Undef ELSE cs[k]]

\* arr[i] = v on a JS array (indices from 0); writing past the end grows it
ArraySet(cs, i, v) ==
  IF i < Len(cs) THEN [cs EXCEPT ![i + 1] = v]
  ELSE cs \o [k \in 1..(i - Len(cs)) |-> Hole] \o << v >>

ArrayGet(cs, i) ==
  IF i >= 0 /\ i < Len(cs) /\ cs[i + 1] # Hole THEN cs[i + 1] ELSE Undef

RECURSIVE PatchAll(_, _, _)
PatchAll(cs, patches, direction) ==
  IF Len(patches) = 0 THEN cs
  ELSE PatchAll(ArraySet(cs, patches[1].i,
                         IF direction = "forward" THEN patches[1].next
                                                  ELSE patches[1].prev),
                SubSeq(patches, 2, Len(patches)), direction)

\* variant: every patch is applied forward, whatever the direction
applyPatchesForward(prevCells, patches, direction) ==
  PatchAll(Spread(prevCells), patches, "forward")

applyPatches(prevCells, patches, direction) ==
  PatchAll(Spread(prevCells), patches, direction)

\* variant: the push keeps the redo branch
pushKeepingFuture(prev, action) ==
  [past |-> Append(prev.past, action), future |-> prev.future]

pushActionToHistory(prev, action) ==
  [past |-> Append(prev.past, action), future |-> << >>]

Push(S, action) ==
  [S EXCEPT !.history = pushActionToHistory(S.history, action),
            !.pushed = IF Len(S.history.future) > 0 THEN "overFuture" ELSE "pushed"]

\* variant: the undone action is not kept for redo
undoDiscarding(S) ==
  IF Len(S.history.past) = 0 THEN S
  ELSE Bind(S.history.past[Len(S.history.past)], LAMBDA lastAction :
         [S EXCEPT !.cells = applyPatches(S.cells, lastAction.patches, "backward"),
                   !.touched = TRUE,
                   !.history = [past |-> SubSeq(@.past, 1, Len(@.past) - 1),
                                future |-> @.future]])

undo(S) ==
  IF Len(S.history.past) = 0 THEN S
  ELSE Bind(S.history.past[Len(S.history.past)], LAMBDA lastAction :
         [S EXCEPT !.cells = applyPatches(S.cells, lastAction.patches, "backward"),
                   !.touched = TRUE,
                   !.history = [past |-> SubSeq(@.past, 1, Len(@.past) - 1),
                                future |-> << lastAction >> \o @.future]])

redo(S) ==
  IF Len(S.history.future) = 0 THEN S
  ELSE Bind(S.history.future[1], LAMBDA nextAction :
         [S EXCEPT !.cells = applyPatches(S.cells, nextAction.patches, "forward"),
                   !.touched = TRUE,
                   !.history = [past |-> Append(@.past, nextAction),
                                future |-> SubSeq(@.future, 2, Len(@.future))]])

\* cells.forEach skips empty slots
RECURSIVE ClearPatches(_, _)
ClearPatches(cs, k) ==
  IF k > Len(cs) THEN << >>
  ELSE (IF cs[k] # Hole /\ cs[k] # 0
        THEN << [i |-> k - 1, prev |-> cs[k], next |-> 0] >> ELSE << >>)
       \o ClearPatches(cs, k + 1)

\* variant: the clear action is pushed whether or not a cell changed
clearBoardAlways(S) ==
  Bind(ClearPatches(S.cells, 1), LAMBDA patches :
    Push([S EXCEPT !.cells = applyPatches(S.cells, patches, "forward"),
                   !.touched = TRUE],
         [kind |-> "clear", patches |-> patches]))

clearBoard(S) ==
  Bind(ClearPatches(S.cells, 1), LAMBDA patches :
    IF Len(patches) > 0
    THEN Push([S EXCEPT !.cells = applyPatches(S.cells, patches, "forward"),
                        !.touched = TRUE],
              [kind |-> "clear", patches |-> patches])
    ELSE S)

StrokeHas(stroke, index) == \E k \in 1..Len(stroke) : stroke[k].i = index

\* variant: a cell already patched in this stroke is patched again
patchStrokeCellRepeating(S, index, targetValue) ==
  IF targetValue = NoTarget THEN S
  ELSE Bind(ArrayGet(S.cells, index), LAMBDA currentValue :
         IF currentValue = targetValue THEN S
         ELSE [S EXCEPT !.currentStroke =
                          Append(@, [i |-> index, prev |-> currentValue,
                                     next |-> targetValue]),
                        !.cells = ArraySet(Spread(@), index, targetValue),
                        !.touched = TRUE])

patchStrokeCell(S, index, targetValue) ==
  IF targetValue = NoTarget THEN S
  ELSE IF StrokeHas(S.currentStroke, index) THEN S
  ELSE Bind(ArrayGet(S.cells, index), LAMBDA currentValue :
         IF currentValue = targetValue THEN S
         ELSE [S EXCEPT !.currentStroke =
                          Append(@, [i |-> index, prev |-> currentValue,
                                     next |-> targetValue]),
                        !.cells = ArraySet(Spread(@), index, targetValue),
                        !.touched = TRUE])

startStroke(S, index) ==
  IF S.activeTool = "move" THEN S
  ELSE IF ~isValidCellIndex(index, Len(S.cells)) THEN S
  ELSE patchStrokeCell([S EXCEPT !.isDrawing = TRUE, !.currentStroke = << >>,
                                 !.began = TRUE],
                       index, getStrokeTargetValue(S.activeTool, S.activeColorId))

\* variant: the index is not checked against the cell count
continueStrokeUnchecked(S, index) ==
  IF S.activeTool = "move" THEN S
  ELSE IF ~S.isDrawing THEN S
  ELSE patchStrokeCell(S, index, getStrokeTargetValue(S.activeTool, S.activeColorId))

continueStroke(S, index) ==
  IF S.activeTool = "move" THEN S
  ELSE IF ~S.isDrawing THEN S
  ELSE IF ~isValidCellIndex(index, Len(S.cells)) THEN S
  ELSE patchStrokeCell(S, index, getStrokeTargetValue(S.activeTool, S.activeColorId))

\* variant: an action is pushed also for an empty patch set
endStrokePushingEmpty(S) ==
  IF ~S.isDrawing THEN S
  ELSE [Push([S EXCEPT !.isDrawing = FALSE],
             [kind |-> "stroke", patches |-> S.currentStroke])
        EXCEPT !.currentStroke = << >>]

endStroke(S) ==
  IF ~S.isDrawing THEN S
  ELSE [(IF Len(S.currentStroke) > 0
         THEN Push([S EXCEPT !.isDrawing = FALSE],
                   [kind |-> "stroke", patches |-> S.currentStroke])
         ELSE [S EXCEPT !.isDrawing = FALSE])
        EXCEPT !.currentStroke = << >>]

\* setTimeout callback of the autosave effect; t is the timer that fires
\* variant: the callback saves without consulting isDirtyRef
timerCallbackUnguarded(S, t, fail) ==
  Bind([S EXCEPT !.timers = @ \ {t}], LAMBDA S1 :
    IF S1.currentDesignIdRef # t.scheduledDesignId THEN S1
    ELSE [saveCurrentDesign(S1, [cells |-> t.cells, boardSize |-> t.boardSize], fail)
            EXCEPT !.ret = "void"])

timerCallback(S, t, fail) ==
  Bind([S EXCEPT !.timers = @ \ {t}], LAMBDA S1 :
    IF S1.currentDesignIdRef # t.scheduledDesignId THEN S1
    ELSE IF ~S1.isDirtyRef THEN S1
    ELSE [saveCurrentDesign(S1, [cells |-> t.cells, boardSize |-> t.boardSize], fail)
            EXCEPT !.ret = "void"])

(* ------------------------------ actions ------------------------------- *)
NeutralOps == {"setActiveTool", "setActiveColorId", "tick", "timer", "continueStroke"}
NoGhost == [phase |-> -1, G |-> << >>, G2 |-> << >>]
IdleGhost == [phase |-> 0, G |-> << >>, G2 |-> << >>]

GhostNext(op, S0, S1, R) ==
  IF ghost.phase = -1 THEN ghost
  ELSE IF op \in NeutralOps THEN ghost
  ELSE IF op = "startStroke"
       THEN IF S1.began
            THEN [phase |-> 1, G |-> S0.cells, G2 |-> << >>]
            ELSE ghost
  ELSE IF op = "endStroke" /\ ghost.phase = 1 /\ R.pushed # "none"
       THEN [ghost EXCEPT !.phase = 2, !.G2 = R.cells]
  ELSE IF op = "undo" /\ ghost.phase = 2 THEN [ghost EXCEPT !.phase = 3]
  ELSE IF op = "redo" /\ ghost.phase = 3 THEN [ghost EXCEPT !.phase = 4]
  ELSE IdleGhost

\* S1 = the state the handler leaves; the re-render and effects follow.
\* last logs the call; a call that leaves the hook and the store exactly as
\* they were is a stuttering step.
Committed(op, arg, S1, R) ==
  LET same == /\ R.boardSize = boardSize /\ R.cells = cells /\ R.history = history
              /\ R.activeTool = activeTool /\ R.activeColorId = activeColorId
              /\ R.isDrawing = isDrawing /\ R.currentDesignId = currentDesignId
              /\ R.currentDesignIdRef = currentDesignIdRef
              /\ R.currentStroke = currentStroke
              /\ R.autosaveTimerRef = autosaveTimerRef /\ R.isDirtyRef = isDirtyRef
              /\ R.persistedSnapshot = persistedSnapshot /\ R.timers = timers
              /\ R.ls = ls /\ R.now = now /\ R.nextId = nextId /\ R.mounted = mounted
  IN
  /\ ~R.stuck
  /\ Len(R.history.past) <= MaxHist
  /\ boardSize' = R.boardSize
  /\ cells' = R.cells
  /\ history' = R.history
  /\ activeTool' = R.activeTool
  /\ activeColorId' = R.activeColorId
  /\ isDrawing' = R.isDrawing
  /\ currentDesignId' = R.currentDesignId
  /\ currentDesignIdRef' = R.currentDesignIdRef
  /\ currentStroke' = R.currentStroke
  /\ autosaveTimerRef' = R.autosaveTimerRef
  /\ isDirtyRef' = R.isDirtyRef
  /\ persistedSnapshot' = R.persistedSnapshot
  /\ timers' = R.timers
  /\ ls' = R.ls
  /\ now' = R.now
  /\ nextId' = R.nextId
  /\ mounted' = R.mounted
  /\ last' = IF same THEN last
             ELSE [op |-> op, arg |-> arg, ret |-> R.ret, save |-> R.save,
                   threw |-> R.threw, pushed |-> R.pushed, cancelled |-> R.cancelled]
  /\ ghost' = GhostNext(op, Cur, S1, R)
  /\ UNCHANGED << callArg, callResult >>

Commit(op, arg, S1, fail) == Committed(op, arg, S1, Render(Cur, S1, fail))

SetActiveTool(t) ==
  /\ mounted /\ t # activeTool
  /\ Commit("setActiveTool", 0, [Cur EXCEPT !.activeTool = t], "none")

SetActiveColorId(c) ==
  /\ mounted /\ c # activeColorId
  /\ Commit("setActiveColorId", 0, [Cur EXCEPT !.activeColorId = c], "none")

StartStroke(index, fail) ==
  /\ mounted
  /\ Commit("startStroke", 0, startStroke(Cur, index), fail)

ContinueStroke(index, fail) ==
  /\ mounted
  /\ Commit("continueStroke", 0, continueStroke(Cur, index), fail)

EndStroke == mounted /\ Commit("endStroke", 0, endStroke(Cur), "none")

Undo(fail) == mounted /\ Commit("undo", 0, undo(Cur), fail)

Redo(fail) == mounted /\ Commit("redo", 0, redo(Cur), fail)

ClearBoard(fail) == mounted /\ Commit("clearBoard", 0, clearBoard(Cur), fail)

SaveCurrentDesign(fail) ==
  mounted /\ Commit("saveCurrentDesign", 0, saveCurrentDesign(Cur, Closure(Cur), fail), fail)

LoadDesignById(id, fail) ==
  mounted /\ Commit("loadDesignById", id, loadDesignById(Cur, id, fail), fail)

CreateNewDesign(size, fail) ==
  mounted /\ Commit("createNewDesign", 0, createNewDesign(Cur, size, fail), fail)

ResizeBoard(size, fail) ==
  mounted /\ Commit("resizeBoard", 0, resizeBoard(Cur, size, fail), fail)

DeleteDesignById(id, fail) ==
  mounted /\ Commit("deleteDesignById", id, deleteDesignById(Cur, id, fail), fail)

TimerFire(fail) ==
  /\ mounted
  /\ \E t \in timers : Commit("timer", 0, timerCallback(Cur, t, fail), fail)

Tick ==
  /\ mounted /\ now < MaxClock
  /\ Commit("tick", 0, [Cur EXCEPT !.now = @ + 1], "none")

Unmount ==
  /\ mounted
  /\ Commit("unmount", 0, Unmounted(Cur), "none")

Indices == -1..(DEFAULT_BOARD_SIZE.width * DEFAULT_BOARD_SIZE.height)
SizeSet == {BOARD_SIZES[k] : k \in 1..Len(BOARD_SIZES)}

\* the store can reject a write only in a call that writes
EditFails == IF currentDesignId = NoId THEN FailKinds ELSE {"none"}
SaveFails == IF currentDesignIdRef = NoId THEN FailKinds ELSE {"none", "record", "index"}
DirtyFails == IF isDirtyRef THEN {"none", "record", "index"} ELSE {"none"}

\* editing: every tool and every cell index, one colour; the store accepts
\* every write
NextEdit ==
  \/ \E t \in Tools : SetActiveTool(t)
  \/ \E i \in Indices : StartStroke(i, "none")
  \/ \E i \in Indices : ContinueStroke(i, "none")
  \/ EndStroke
  \/ Undo("none")
  \/ Redo("none")
  \/ ClearBoard("none")

\* persistence: paint strokes on cell 0, timers, clock; the store accepts
\* every write
NextSync ==
  \/ StartStroke(0, "none")
  \/ EndStroke
  \/ Undo("none")
  \/ SaveCurrentDesign("none")
  \/ \E id \in AllIds : LoadDesignById(id, "none")
  \/ \E sz \in SizeSet : CreateNewDesign(sz, "none")
  \/ \E sz \in SizeSet : ResizeBoard(sz, "none")
  \/ TimerFire("none")
  \/ Tick
  \/ Unmount

\* persistence with a store that may reject any write
NextFail ==
  \/ \E f \in EditFails : StartStroke(0, f)
  \/ EndStroke
  \/ \E f \in EditFails : Undo(f)
  \/ \E f \in SaveFails : SaveCurrentDesign(f)
  \/ \E id \in AllIds, f \in DirtyFails \cup {"pointer"} : LoadDesignById(id, f)
  \/ \E sz \in SizeSet, f \in DirtyFails : CreateNewDesign(sz, f)
  \/ \E f \in DirtyFails : TimerFire(f)

(* ------------------------------- Init --------------------------------- *)
\* Records found in localStorage at start-up: one well-formed design and one
\* record that load validation must reject.  The index is at the cap, and
\* both entries carry the clock value the session starts with: the clock has
\* millisecond resolution and advances only when Tick happens.
GoodRecord ==
  [id |-> MaxIds + 1, width |-> 1, height |-> 1, gridB64 |-> encodeGrid(<< 1 >>),
   createdAt |-> 0, updatedAt |-> 0]

CorruptRecords ==
  { [id |-> MaxIds + 2, width |-> 0, height |-> 1, gridB64 |-> encodeGrid(<< >>),
     createdAt |-> 0, updatedAt |-> 0],
    [id |-> MaxIds + 2, width |-> 1, height |-> Fraction, gridB64 |-> encodeGrid(<< 1 >>),
     createdAt |-> 0, updatedAt |-> 0],
    [id |-> MaxIds + 2, width |-> 2, height |-> 1, gridB64 |-> encodeGrid(<< 1 >>),
     createdAt |-> 0, updatedAt |-> 0],
    [id |-> MaxIds + 2, width |-> 1, height |-> 1, gridB64 |-> << 0, BadChar, Pad, Pad >>,
     createdAt |-> 0, updatedAt |-> 0] }

InitStore(bad) ==
  [records |-> [i \in AllIds |-> IF i = GoodRecord.id THEN GoodRecord
                                 ELSE IF i = bad.id THEN bad ELSE NoRec],
   index |-> << EntryOf(GoodRecord), EntryOf(bad) >>,
   currentId |-> NoId]

\* callArg, callResult: argument and result of a call of a function of
\* utils/ made outside the hook; no call has been made
NoCall == [done |-> FALSE, value |-> << >>]

InitHook ==
  /\ boardSize = DEFAULT_BOARD_SIZE
  /\ cells = createBlankCells(DEFAULT_BOARD_SIZE)
  /\ history = createEmptyHistory
  /\ activeTool = "paint"
  /\ activeColorId = 1
  /\ isDrawing = FALSE
  /\ currentDesignId = NoId
  /\ currentDesignIdRef = NoId
  /\ currentStroke = << >>
  /\ autosaveTimerRef = 0
  /\ isDirtyRef = FALSE
  /\ persistedSnapshot = createSnapshot(DEFAULT_BOARD_SIZE, createBlankCells(DEFAULT_BOARD_SIZE))
  /\ timers = {}
  /\ now = 0
  /\ nextId = 1
  /\ mounted = TRUE
  /\ last = [op |-> "init", arg |-> 0, ret |-> "void", save |-> "none",
             threw |-> "none", pushed |-> "none", cancelled |-> FALSE]

InitCommon ==
  /\ InitHook
  /\ callArg = << >>
  /\ callResult = NoCall

\* the corrupt record found at start-up is any of CorruptRecords
Init ==
  /\ InitCommon
  /\ \E bad \in CorruptRecords : ls = InitStore(bad)
  /\ ghost = NoGhost

\* the same start with one stored corrupt record and stroke tracking on
InitTrack ==
  /\ InitCommon
  /\ ls = InitStore(CHOOSE bad \in CorruptRecords : bad.width = 2)
  /\ ghost = IdleGhost

Spec == Init /\ [][NextSync]_vars

SpecFail == Init /\ [][NextFail]_vars

SpecEdit == InitTrack /\ [][NextEdit]_vars

\* editing across a replacement of the grid
NextGrid ==
  \/ \E i \in Indices : StartStroke(i, "none")
  \/ EndStroke
  \/ Undo("none")
  \/ Redo("none")
  \/ ClearBoard("none")
  \/ \E id \in AllIds : LoadDesignById(id, "none")
  \/ \E sz \in SizeSet : CreateNewDesign(sz, "none")
  \/ \E sz \in SizeSet : ResizeBoard(sz, "none")

SpecGrid == InitTrack /\ [][NextGrid]_vars

\* the gallery: saves, deletions and switches, with a store that may reject
\* the write of a save or of a deletion
NextGallery ==
  \/ StartStroke(0, "none")
  \/ \E f \in {"none", "record", "index"} : SaveCurrentDesign(f)
  \/ \E id \in AllIds : \E f \in {"none", "index"} : DeleteDesignById(id, f)
  \/ \E id \in AllIds : LoadDesignById(id, "none")
  \/ \E sz \in SizeSet : CreateNewDesign(sz, "none")
  \/ Tick

SpecGallery == Init /\ [][NextGallery]_vars

\* a session that comes to rest: until the clock reaches MaxClock the user
\* edits and switches designs and the store may reject any write; from then
\* on no call is made, the store accepts every write, and only the pending
\* setTimeout callback runs.
NextLive ==
  \/ now < MaxClock /\ NextFail
  \/ Tick
  \/ TimerFire("none")

\* what a run of the setTimeout callback logs
TimerLogs ==
  [op : {"timer"}, arg : {0}, ret : {"void"},
   save : {"none", "ok", "failed", "threw"},
   threw : {"none", "handler", "effect"}, pushed : {"none"}, cancelled : BOOLEAN]

\* a pending timer is consumed by a run of its callback: the steps of
\* TimerFire, seen through timers and last
TimerDue ==
  /\ mounted
  /\ \E t \in timers : timers' = timers \ {t}
  /\ last' \in TimerLogs

\* time passes, and the event loop runs a callback that stays pending
SpecLive ==
  /\ Init
  /\ [][NextLive]_vars
  /\ WF_vars(Tick)
  /\ WF_<< timers, last >>(TimerDue)

(* ----------------- utils/storage.ts: the grid codec ------------------- *)
\* byte values at the edges of the 6-bit groups of base64
ByteSamples == {0, 1, 3, 4, 63, 64, 128, 252, 255}
CellArrays == UNION { [1..n -> ByteSamples] : n \in 0..MaxCells }

\* characters of a stored string: base64 digits, '=' and a foreign one
CharSamples == {0, 17, 63, Pad, BadChar}
StoredStrings == UNION { [1..n -> CharSamples] : n \in 0..MaxB64 }

CodecCalls ==
  { [fn |-> "roundTrip", value |-> cs] : cs \in CellArrays }
    \cup { [fn |-> "decodeGrid", value |-> s] : s \in StoredStrings }

CallRoundTrip ==
  /\ ~callResult.done
  /\ callArg.fn = "roundTrip"
  /\ callResult' = [done |-> TRUE, value |-> decodeGrid(encodeGrid(callArg.value))]
  /\ UNCHANGED << callArg, hookVars >>

CallDecodeGrid ==
  /\ ~callResult.done
  /\ callArg.fn = "decodeGrid"
  /\ callResult' = [done |-> TRUE, value |-> decodeGrid(callArg.value)]
  /\ UNCHANGED << callArg, hookVars >>

\* the stored record whose grid string is not base64
InitCodec ==
  /\ InitHook
  /\ ls = InitStore(CHOOSE bad \in CorruptRecords : bad.width = 1 /\ bad.height = 1)
  /\ ghost = NoGhost
  /\ callArg \in CodecCalls
  /\ callResult = NoCall

NextCodec ==
  \/ CallRoundTrip
  \/ CallDecodeGrid
  \/ \E id \in AllIds : LoadDesignById(id, "none")

SpecCodec == InitCodec /\ [][NextCodec]_vars

(* ------------------------ utils/structure.ts -------------------------- *)
\* g = [cells, width, height]; cell indices count from 0
orthogonalDirs == << << 0, -1 >>, << 0, 1 >>, << -1, 0 >>, << 1, 0 >> >>
diagonalDirs == << << -1, -1 >>, << 1, -1 >>, << -1, 1 >>, << 1, 1 >> >>

getIndex(g, x, y) == y * g.width + x

\* variant: a neighbour is valid when its index is inside the array
isValidByIndex(g, x, y) ==
  y * g.width + x >= 0 /\ y * g.width + x < g.width * g.height

isValid(g, x, y) == x >= 0 /\ x < g.width /\ y >= 0 /\ y < g.height

\* x = i % width, y = Math.floor(i / width)
XOf(g, i) == i % g.width
YOf(g, i) == i \div g.width

\* the bead at (x, y), 0 outside the grid
BeadAt(g, x, y) == IF isValid(g, x, y) THEN g.cells[getIndex(g, x, y) + 1] ELSE 0

\* st = [clusterMap, queue]: the for loop over orthogonalDirs of the BFS
RECURSIVE VisitNeighbours(_, _, _, _, _)
VisitNeighbours(g, currIdx, clusterId, st, d) ==
  IF d > Len(orthogonalDirs) THEN st
  ELSE VisitNeighbours(g, currIdx, clusterId,
         Bind(getIndex(g, XOf(g, currIdx) + orthogonalDirs[d][1],
                       YOf(g, currIdx) + orthogonalDirs[d][2]), LAMBDA nIdx :
           IF /\ BeadAt(g, XOf(g, currIdx) + orthogonalDirs[d][1],
                        YOf(g, currIdx) + orthogonalDirs[d][2]) # 0
              /\ st.clusterMap[nIdx + 1] = 0
           THEN [clusterMap |-> [st.clusterMap EXCEPT ![nIdx + 1] = clusterId],
                 queue |-> Append(st.queue, nIdx)]
           ELSE st),
         d + 1)

\* variant: only the neighbours of the first cell join its cluster
RECURSIVE FloodClusterOneStep(_, _, _, _)
FloodClusterOneStep(g, clusterId, st, head) ==
  IF head > 1 THEN st.clusterMap
  ELSE FloodClusterOneStep(g, clusterId,
                           VisitNeighbours(g, st.queue[head], clusterId, st, 1), head + 1)

\* while (head < queue.length)
RECURSIVE FloodCluster(_, _, _, _)
FloodCluster(g, clusterId, st, head) ==
  IF head > Len(st.queue) THEN st.clusterMap
  ELSE FloodCluster(g, clusterId,
                    VisitNeighbours(g, st.queue[head], clusterId, st, 1), head + 1)

\* 1. Build Orthogonal Clusters
RECURSIVE BuildClusters(_, _, _, _)
BuildClusters(g, i, clusterMap, nextClusterId) ==
  IF i >= Len(g.cells) THEN clusterMap
  ELSE IF g.cells[i + 1] # 0 /\ clusterMap[i + 1] = 0
  THEN BuildClusters(g, i + 1,
         FloodCluster(g, nextClusterId,
                      [clusterMap |-> [clusterMap EXCEPT ![i + 1] = nextClusterId],
                       queue |-> << i >>], 1),
         nextClusterId + 1)
  ELSE BuildClusters(g, i + 1, clusterMap, nextClusterId)

orthogonalNeighborCount(g, i) ==
  Cardinality({ d \in 1..Len(orthogonalDirs) :
                  BeadAt(g, XOf(g, i) + orthogonalDirs[d][1],
                         YOf(g, i) + orthogonalDirs[d][2]) # 0 })

\* variant: any diagonal neighbour with a bead counts
WeakBridgeAnyCluster(g, clusterMap, i) ==
  \E d \in 1..Len(diagonalDirs) :
    BeadAt(g, XOf(g, i) + diagonalDirs[d][1], YOf(g, i) + diagonalDirs[d][2]) # 0

\* Check 2: a diagonal neighbour with a bead of another cluster
WeakBridge(g, clusterMap, i) ==
  \E d \in 1..Len(diagonalDirs) :
    /\ BeadAt(g, XOf(g, i) + diagonalDirs[d][1],
              YOf(g, i) + diagonalDirs[d][2]) # 0
    /\ clusterMap[getIndex(g, XOf(g, i) + diagonalDirs[d][1],
                           YOf(g, i) + diagonalDirs[d][2]) + 1] # clusterMap[i + 1]

UnstableIn(g, clusterMap) ==
  { i \in 0..(Len(g.cells) - 1) :
      /\ g.cells[i + 1] # 0
      /\ \/ orthogonalNeighborCount(g, i) = 0
         \/ WeakBridge(g, clusterMap, i) }

findUnstableBeads(cs, width, height) ==
  Bind([cells |-> cs, width |-> width, height |-> height], LAMBDA g :
    UnstableIn(g, BuildClusters(g, 0, [k \in 1..(width * height) |-> 0], 1)))

\* every grid of beads of one colour up to MaxSide x MaxSide, and two 2x2
\* blocks of different colours that touch at one corner
TwoBlocks ==
  [cells |-> << 1, 1, 0, 0,
                1, 1, 0, 0,
                0, 0, 2, 2,
                0, 0, 2, 2 >>, width |-> 4, height |-> 4]

Grids ==
  UNION { { [cells |-> cs, width |-> w, height |-> h] : cs \in [1..(w * h) -> {0, 1}] } :
          w \in 1..MaxSide, h \in 1..MaxSide }
    \cup {TwoBlocks}

CallFindUnstableBeads ==
  /\ ~callResult.done
  /\ callResult' = [done |-> TRUE,
                    value |-> findUnstableBeads(callArg.cells, callArg.width,
                                                callArg.height)]
  /\ UNCHANGED << callArg, hookVars >>

InitStructure ==
  /\ InitHook
  /\ ls = InitStore(CHOOSE bad \in CorruptRecords : bad.width = 2)
  /\ ghost = NoGhost
  /\ callArg \in Grids
  /\ callResult = NoCall

NextStructure == CallFindUnstableBeads

SpecStructure == InitStructure /\ [][NextStructure]_vars

(* ----------------------------- properties ----------------------------- *)
\* C1 - Undo exactness: after a completed stroke that recorded at least one
\* patch (grid G before startStroke, grid G2 after endStroke), undo makes the
\* grid equal to G cell by cell, and a following redo makes it equal to G2.
UndoExactness ==
  /\ ghost.phase = 3 => cells = ghost.G
  /\ ghost.phase = 4 => cells = ghost.G2

UndoExactnessWitness ==
  /\ ghost.phase = 4
  /\ ghost.G # ghost.G2
  /\ cells = ghost.G2

\* C2 - History branch invalidation: in the state a push of a new action
\* (stroke or clear) leaves, future is empty, also when the push followed
\* undos; a redo called there changes neither the grid nor the history.
HistoryBranchInvalidation ==
  last.pushed # "none" =>
    /\ history.future = << >>
    /\ redo(Cur).cells = cells
    /\ redo(Cur).history = history

HistoryBranchInvalidationWitness ==
  /\ last.op = "endStroke"
  /\ last.pushed = "overFuture"
  /\ Len(history.past) = 1

SwitchCalls == {"loadDesignById", "createNewDesign"}

\* C3 - Flush gates the switch: a loadDesignById or createNewDesign whose flush
\* save is rejected by the store returns false and leaves the grid, its
\* dimensions, the history and the current design id as they were.
FlushGatesSwitch ==
  [][ (last'.op \in SwitchCalls /\ last'.save = "failed") =>
        /\ last'.ret = "false"
        /\ cells' = cells
        /\ boardSize' = boardSize
        /\ history' = history
        /\ currentDesignId' = currentDesignId
        /\ currentDesignIdRef' = currentDesignIdRef ]_vars

FlushGatesSwitchWitness ==
  /\ last.op \in SwitchCalls
  /\ last.save = "failed"
  /\ last.ret = "false"
  /\ isDirtyRef

\* C4 - Flush-before-switch ordering: after a loadDesignById, createNewDesign
\* or resizeBoard that flushed unsaved changes and went on to replace the
\* grid, the stored record of the previous design holds the dimensions and
\* the encoding of the grid as it was immediately before the switch.
FlushBeforeSwitch ==
  [][ ( /\ last'.op \in SwitchCalls \cup {"resizeBoard"}
        /\ last'.save = "ok"
        /\ last'.ret # "false"
        /\ currentDesignIdRef # NoId ) =>
        /\ ls'.records[currentDesignIdRef] # NoRec
        /\ ls'.records[currentDesignIdRef].width = boardSize.width
        /\ ls'.records[currentDesignIdRef].height = boardSize.height
        /\ ls'.records[currentDesignIdRef].gridB64 = encodeGrid(cells) ]_vars

\* C5 - A save never crashes the caller: no call of saveCurrentDesign (from
\* a handler, from flushAutosave, from the autosave effect or its timer) ends
\* with an exception when the store rejects one of its writes.
SaveNeverCrashes == last.save # "threw"

SaveCalls == {"saveCurrentDesign", "timer", "loadDesignById", "createNewDesign"}

\* C6 - A failed save is state-preserving: a save the store rejected
\* (saveCurrentDesign returned null or raised) leaves the PersistedSnapshot as
\* it was, a call that only saves leaves the cells, the dimensions and the
\* history as they were, and a state that was dirty is still reported dirty.
FailedSavePreservesState ==
  [][ last'.save \in {"failed", "threw"} =>
        /\ persistedSnapshot' = persistedSnapshot
        /\ last'.op \in SaveCalls =>
             /\ cells' = cells
             /\ boardSize' = boardSize
             /\ history' = history
        /\ isStateDirty(persistedSnapshot, cells', boardSize') =>
             /\ isStateDirty(persistedSnapshot', cells', boardSize')
             /\ isDirtyRef' ]_vars

FailedSavePreservesStateWitness ==
  /\ last.op = "saveCurrentDesign"
  /\ last.save = "failed"
  /\ last.ret = "null"
  /\ isDirtyRef

\* a stored record that is not well-formed: a width or height that is not a
\* positive integer, or a grid of another length than width * height
IsCorruptRecord(rec) ==
  /\ rec # NoRec
  /\ \/ rec.width = Fraction \/ rec.width <= 0
     \/ rec.height = Fraction \/ rec.height <= 0
     \/ Len(decodeGrid(rec.gridB64)) # rec.width * rec.height

\* C7 - Load rejection is atomic: loadDesignById on a stored record whose
\* width or height is not a positive integer, or whose grid decodes to a
\* number of cells other than width * height, returns false and leaves the
\* cells, the dimensions, the history and the current design id unchanged.
LoadRejectionAtomic ==
  [][ (last'.op = "loadDesignById" /\ IsCorruptRecord(ls.records[last'.arg])) =>
        /\ last'.ret = "false"
        /\ cells' = cells
        /\ boardSize' = boardSize
        /\ history' = history
        /\ currentDesignId' = currentDesignId
        /\ currentDesignIdRef' = currentDesignIdRef ]_vars

LoadRejectionAtomicWitness ==
  /\ last.op = "loadDesignById"
  /\ IsCorruptRecord(ls.records[last.arg])
  /\ last.save = "ok"
  /\ last.ret = "false"
  /\ currentDesignId # last.arg

\* C8 - Identity- and dirty-guarded autosave: a timer that fires calls the
\* save, or changes the store, only if the design id it was armed for is
\* still the current one and the state is still dirty; otherwise it writes
\* nothing.
GuardedAutosave ==
  [][ (last'.op = "timer" /\ (last'.save # "none" \/ ls' # ls)) =>
        \E t \in timers \ timers' :
          /\ t.scheduledDesignId = currentDesignIdRef
          /\ isDirtyRef
          /\ isStateDirty(persistedSnapshot, cells, boardSize) ]_vars

GuardedAutosaveWitness ==
  /\ last.op = "timer"
  /\ last.save = "none"
  /\ ~isDirtyRef
  /\ currentDesignId # NoId

\* C9 - At most one autosave timer is pending in every reachable state.
SingleTimer == Cardinality(timers) <= 1

SingleTimerWitness ==
  /\ last.cancelled
  /\ Cardinality(timers) = 1
  /\ \E t \in timers : t.id = autosaveTimerRef

\* C10 - A pending autosave timer is cancelled by a change of cells, by an
\* explicit saveCurrentDesign, by loadDesignById / createNewDesign and by
\* teardown: no timer pending before such a step is pending after it.
TimerCancelledByEvents ==
  [][ ( \/ cells' # cells
        \/ last'.op \in SwitchCalls \cup {"saveCurrentDesign", "unmount"} ) =>
        timers \cap timers' = {} ]_vars

DistinctCells(patches) ==
  \A j, k \in 1..Len(patches) : j # k => patches[j].i # patches[k].i

\* C11 - Stroke coalescing: the patch set of a stroke holds at most one patch
\* per cell index, and in the action a completed stroke records, each patch
\* has prev = the cell's value before the stroke and next = the cell's value
\* when the stroke ended (a later touch of the cell, also with another tool,
\* changed neither the patch nor the cell).
StrokeCoalescing ==
  /\ DistinctCells(currentStroke)
  /\ ghost.phase = 2 =>
       LET patches == history.past[Len(history.past)].patches IN
         /\ DistinctCells(patches)
         /\ \A k \in 1..Len(patches) :
              /\ patches[k].prev = ghost.G[patches[k].i + 1]
              /\ patches[k].next = ghost.G2[patches[k].i + 1]

StrokeCoalescingWitness ==
  /\ ghost.phase = 2
  /\ last.op = "endStroke"
  /\ activeTool = "erase"
  /\ \E k \in 1..Len(history.past[1].patches) : history.past[1].patches[k].next = 1

NoEmptyAction ==
  /\ \A k \in 1..Len(history.past) : Len(history.past[k].patches) > 0
  /\ \A k \in 1..Len(history.future) : Len(history.future[k].patches) > 0

\* C12 - endStroke with an active stroke appends exactly one action of kind
\* stroke holding the stroke's patches in first-touch order when there is at
\* least one patch and leaves the history alone when there is none; either
\* way the patch set is empty and no stroke is active afterwards, and no cell
\* changes.  With no active stroke it changes nothing.  No action with zero
\* patches is ever in past or future.
EndStrokeContract ==
  /\ [](NoEmptyAction /\ (~isDrawing => endStroke(Cur) = Cur))
  /\ [][ (isDrawing /\ last'.op = "endStroke") =>
           /\ ~isDrawing'
           /\ currentStroke' = << >>
           /\ cells' = cells
           /\ IF Len(currentStroke) > 0
              THEN history'.past =
                     Append(history.past,
                            [kind |-> "stroke", patches |-> currentStroke])
              ELSE history' = history ]_vars

EndStrokeContractWitness ==
  /\ last.op = "endStroke"
  /\ last.pushed # "none"
  /\ ~isDrawing
  /\ Len(history.past[1].patches) = 2
  /\ history.past[1].patches[1].i = 1
  /\ history.past[1].patches[2].i = 0

AllZero(cs) == \A k \in 1..Len(cs) : cs[k] = 0

NonZeroCount(cs) == Cardinality({k \in 1..Len(cs) : cs[k] # 0})

\* C13 - Clear idempotence: clearBoard on a board whose cells are all 0
\* changes neither the grid nor the history; on a board with a nonzero cell
\* it sets every cell to 0 and pushes exactly one action of kind clear with
\* one patch (value -> 0) per previously nonzero cell; a second clearBoard
\* right after it adds nothing, so the two calls add one action in total.
ClearIdempotence ==
  /\ [](/\ AllZero(cells) =>
             /\ clearBoard(Cur).cells = cells
             /\ clearBoard(Cur).history = history
        /\ clearBoard(clearBoard(Cur)).history = clearBoard(Cur).history
        /\ clearBoard(clearBoard(Cur)).cells = clearBoard(Cur).cells)
  /\ [][ (~AllZero(cells) /\ last'.op = "clearBoard") =>
           /\ AllZero(cells')
           /\ Len(cells') = Len(cells)
           /\ Len(history'.past) = Len(history.past) + 1
           /\ SubSeq(history'.past, 1, Len(history.past)) = history.past
           /\ LET action == history'.past[Len(history'.past)] IN
                /\ action.kind = "clear"
                /\ Len(action.patches) = NonZeroCount(cells)
                /\ DistinctCells(action.patches)
                /\ \A k \in 1..Len(action.patches) :
                     /\ action.patches[k].prev = cells[action.patches[k].i + 1]
                     /\ action.patches[k].prev # 0
                     /\ action.patches[k].next = 0 ]_vars

ClearIdempotenceWitness ==
  /\ last.op = "clearBoard"
  /\ last.pushed # "none"
  /\ AllZero(cells)
  /\ history.past[Len(history.past)].kind = "clear"
  /\ Len(history.past[Len(history.past)].patches) = 2
  /\ clearBoard(Cur).history = history

MoveToolInert ==
  [][ (activeTool = "move"
       /\ last'.op \in {"startStroke", "continueStroke", "endStroke"}) =>
        /\ cells' = cells
        /\ history' = history ]_vars

\* C16 - History reset on identity change: immediately after every
\* successful loadDesignById, createNewDesign or resizeBoard the history is
\* exactly {past: [], future: []}, whatever it was before.
HistoryReset ==
  [][ /\ \A id \in AllIds :
           (LoadDesignById(id, "none")
            /\ loadDesignById(Cur, id, "none").ret = "true") =>
             history' = createEmptyHistory
      /\ \A sz \in SizeSet :
           /\ (CreateNewDesign(sz, "none")
               /\ createNewDesign(Cur, sz, "none").ret = "true") =>
                history' = createEmptyHistory
           /\ (ResizeBoard(sz, "none")
               /\ createNewDesign(Cur, sz, "none").ret = "true") =>
                history' = createEmptyHistory ]_vars

HistoryResetWitness ==
  /\ last.op = "resizeBoard"
  /\ history = createEmptyHistory
  /\ boardSize = BOARD_SIZES[1]
  /\ currentDesignId = NoId
  /\ \E k \in 1..Len(ls.records) :
       ls.records[k].id # NoId /\ ls.records[k].gridB64 = encodeGrid(<<1, 0>>)

\* C17 - Grid well-formedness in every reachable state: after any sequence
\* of strokes, undo, redo, clearBoard, load, new and resize,
\* cells.length = width * height and every cell is an integer in 0..255.
GridWellFormed ==
  /\ Len(cells) = boardSize.width * boardSize.height
  /\ \A k \in 1..Len(cells) : cells[k] \in 0..255

\* C18 - The dirty check is by content: after each state change the state is
\* dirty exactly when (width, height, encode(cells)) differs from the
\* persisted snapshot; edits and undos that bring the cells back to the
\* snapshot's content yield not-dirty, and a cell array replaced by one of
\* equal content is not dirty.
DirtyByContent ==
  mounted =>
    (isDirtyRef <=>
       << boardSize.width, boardSize.height, encodeGrid(cells) >> #
       << persistedSnapshot.width, persistedSnapshot.height,
          persistedSnapshot.gridB64 >>)

DirtyByContentWitness ==
  /\ mounted
  /\ last.op = "undo"
  /\ ~isDirtyRef
  /\ currentDesignId # NoId
  /\ Len(history.future) = 1
  /\ history.future[1].patches[1].next # history.future[1].patches[1].prev

\* the id a save made in this step writes: the current design's, or the
\* fresh one a draft is given
SavedId == IF currentDesignIdRef # NoId THEN currentDesignIdRef ELSE nextId

\* C19 - createdAt is preserved: every successful save of an id that already
\* has a stored record writes a record with the same id and createdAt and
\* with updatedAt the time of the save; only the first save of an id sets
\* createdAt (a design the editor already holds an id for, which was saved or
\* loaded before, finds its record).
CreatedAtPreserved ==
  [][ (last'.save = "ok" /\ ls' # ls) =>
        /\ (loadDesign(ls, SavedId) # NoRec /\ loadDesign(ls', SavedId) # NoRec) =>
             /\ loadDesign(ls', SavedId).id = SavedId
             /\ loadDesign(ls', SavedId).createdAt = loadDesign(ls, SavedId).createdAt
             /\ loadDesign(ls', SavedId).updatedAt = now
        /\ currentDesignIdRef # NoId => loadDesign(ls, SavedId) # NoRec ]_vars

\* C20 - Index invariant: from a well-formed index, after every successful
\* saveDesign and every deleteDesign the stored gallery index is sorted by
\* updatedAt descending, has at most MAX_DESIGNS entries and holds no two
\* entries with the same id.
IndexInvariant ==
  /\ \A j, k \in 1..Len(ls.index) :
       j < k => ls.index[j].updatedAt >= ls.index[k].updatedAt
  /\ Len(ls.index) <= MAX_DESIGNS
  /\ \A j, k \in 1..Len(ls.index) : j # k => ls.index[j].id # ls.index[k].id

IndexInvariantWitness ==
  /\ last.op = "deleteDesignById"
  /\ Len(ls.index) = 1
  /\ ls.index[1].updatedAt = 1
  /\ ls.index[1].id = currentDesignIdRef

\* designs handed to saveDesign: every id, every time stamp of the clock
SomeDesigns ==
  { [id |-> i, width |-> 1, height |-> 1, gridB64 |-> encodeGrid(<< 1 >>),
     createdAt |-> c, updatedAt |-> u] :
    i \in AllIds, c \in 0..MaxClock, u \in 0..MaxClock }

IndexIds(index) == {index[k].id : k \in 1..Len(index)}

\* the updatedAt an id has once design d is upserted into the index
UpsertedAt(index, d, i) ==
  IF i = d.id THEN d.updatedAt ELSE index[IndexOfId(index, i)].updatedAt

\* C21 - Gallery eviction: when a save makes the index longer than the cap,
\* exactly the entries beyond the cap in updatedAt-descending order (the
\* oldest by updatedAt, whatever their createdAt) leave the index and their
\* records leave the store; with the index at the cap, saving one new design
\* evicts exactly one design, one with the oldest updatedAt.
GalleryEviction ==
  \A d \in SomeDesigns :
    LET r       == saveDesign(ls, d, "none")
        before  == IndexIds(ls.index) \cup {d.id}
        after   == IndexIds(r.ls.index)
        evicted == before \ after
    IN /\ ~r.threw
       /\ after \subseteq before
       /\ Cardinality(evicted) =
            IF Cardinality(before) > MAX_DESIGNS
            THEN Cardinality(before) - MAX_DESIGNS ELSE 0
       /\ \A e \in evicted :
            /\ loadDesign(r.ls, e) = NoRec
            /\ \A k \in after :
                 UpsertedAt(ls.index, d, e) <= UpsertedAt(ls.index, d, k)
       /\ \A k \in AllIds \ (evicted \cup {d.id}) :
            loadDesign(r.ls, k) = loadDesign(ls, k)
       /\ (Len(ls.index) = MAX_DESIGNS /\ d.id \notin IndexIds(ls.index)) =>
            Cardinality(evicted) = 1

GalleryEvictionWitness ==
  /\ last.save = "ok"
  /\ Len(ls.index) = MAX_DESIGNS
  /\ ls.index[1].id = currentDesignIdRef
  /\ ls.index[1].updatedAt = 1
  /\ ls.index[2].updatedAt = 0
  /\ \E i \in AllIds : i \notin IndexIds(ls.index) /\ i # currentDesignIdRef
                       /\ loadDesign(ls, i) = NoRec /\ i > MaxIds

\* the store after a complete deletion of id: record and entry gone, the
\* rest as it was
DeletedBothHalves(id) ==
  /\ loadDesign(ls', id) = NoRec
  /\ id \notin IndexIds(ls'.index)
  /\ \A k \in AllIds \ {id} : loadDesign(ls', k) = loadDesign(ls, k)
  /\ ls'.index = SelectSeq(ls.index, LAMBDA e : e.id # id)
  /\ ls'.currentId = ls.currentId

\* C22 - Delete removes both halves: after deleteDesignById(id) returns true
\* for an id that is not the open design, the store holds neither a record
\* nor an index entry for id, and every other record and entry is unchanged.
DeleteRemovesBoth ==
  [][ \A id \in AllIds : \A f \in {"none", "index"} :
        (DeleteDesignById(id, f) /\ deleteDesignById(Cur, id, f).ret = "true")
          => DeletedBothHalves(id) ]_vars

\* C23 - The open design is never deleted: deleteDesignById(id) with id the
\* currently open design id returns false and changes neither the store nor
\* the editor state, so no delete, of any id, removes the open design's
\* record or changes which design is open.
OpenDesignNotDeleted ==
  /\ [](currentDesignIdRef # NoId =>
          \A f \in {"none", "index"} :
            deleteDesignById(Cur, currentDesignIdRef, f) = [Cur EXCEPT !.ret = "false"])
  /\ [][ \A id \in AllIds : \A f \in {"none", "index"} :
           DeleteDesignById(id, f) =>
             /\ currentDesignIdRef' = currentDesignIdRef
             /\ currentDesignId' = currentDesignId
             /\ currentDesignIdRef # NoId =>
                  /\ loadDesign(ls', currentDesignIdRef) = loadDesign(ls, currentDesignIdRef)
                  /\ (currentDesignIdRef \in IndexIds(ls'.index))
                       = (currentDesignIdRef \in IndexIds(ls.index)) ]_vars

OpenDesignNotDeletedWitness ==
  /\ last.op = "deleteDesignById"
  /\ currentDesignIdRef # NoId
  /\ last.arg # currentDesignIdRef
  /\ loadDesign(ls, last.arg) = NoRec
  /\ loadDesign(ls, currentDesignIdRef) # NoRec
  /\ Len(ls.index) = 1

\* C24 - Encoding round-trip: for every sequence cells of integers in
\* 0..255, the empty one and those longer than one chunk included,
\* decodeGrid(encodeGrid(cells)) equals cells in length and element by
\* element.
EncodingRoundTrip ==
  (callResult.done /\ callArg.fn = "roundTrip") =>
    /\ Len(callResult.value) = Len(callArg.value)
    /\ \A k \in 1..Len(callArg.value) : callResult.value[k] = callArg.value[k]

EncodingRoundTripWitness ==
  /\ callResult.done
  /\ callArg.fn = "roundTrip"
  /\ Len(callArg.value) > Chunk
  /\ callArg.value[1] = 255
  /\ callArg.value[Len(callArg.value)] = 252
  /\ callResult.value = callArg.value

\* forgiving-base64: up to two trailing '=' on a string whose length is a
\* multiple of 4, then only base64 digits, and not one digit over a multiple
\* of 4
IsBase64(s) ==
  \E p \in 0..2 :
    /\ p <= Len(s)
    /\ p > 0 => Len(s) % 4 = 0
    /\ \A k \in (Len(s) - p + 1)..Len(s) : s[k] = Pad
    /\ \A k \in 1..(Len(s) - p) : s[k] \in 0..63
    /\ (Len(s) - p) % 4 # 1

\* C25 - decodeGrid of a malformed (non-base64) string does not throw and
\* returns the empty sequence, and a stored record whose grid string is
\* malformed is therefore rejected by load validation: loadDesignById
\* returns false.
MalformedGridRejected ==
  /\ (callResult.done /\ callArg.fn = "decodeGrid" /\ ~IsBase64(callArg.value)) =>
       callResult.value = << >>
  /\ \A id \in AllIds :
       (loadDesign(ls, id) # NoRec /\ ~IsBase64(loadDesign(ls, id).gridB64)) =>
         /\ ~validateLoadedDesign(loadDesign(ls, id)).ok
         /\ loadDesignById(Cur, id, "none").ret = "false"
         /\ loadDesignById(Cur, id, "none").threw = "none"

MalformedGridRejectedWitness ==
  /\ callResult.done
  /\ callArg.fn = "decodeGrid"
  /\ ~IsBase64(callArg.value)
  /\ Len(callArg.value) = 4
  /\ callArg.value[2] = BadChar
  /\ \E id \in AllIds :
       loadDesign(ls, id) # NoRec /\ ~IsBase64(loadDesign(ls, id).gridB64)

\* the grid handed to findUnstableBeads, read by coordinates
Beads == { i \in 0..(Len(callArg.cells) - 1) : callArg.cells[i + 1] # 0 }

Abs(n) == IF n < 0 THEN -n ELSE n

Adjacent4(i, j) ==
  Abs(XOf(callArg, i) - XOf(callArg, j)) + Abs(YOf(callArg, i) - YOf(callArg, j)) = 1

AdjacentDiagonal(i, j) ==
  /\ Abs(XOf(callArg, i) - XOf(callArg, j)) = 1
  /\ Abs(YOf(callArg, i) - YOf(callArg, j)) = 1

\* the maximal set of beads connected to S by 4-adjacency
RECURSIVE ClusterOf(_)
ClusterOf(S) ==
  LET grown == S \cup { j \in Beads : \E k \in S : Adjacent4(j, k) }
  IN IF grown = S THEN S ELSE ClusterOf(grown)

\* C26 - Rule A (isolation): every nonempty cell with no nonempty
\* 4-adjacent neighbour inside the grid (the last cell of a row and the first
\* of the next row are not neighbours) is in the result of findUnstableBeads;
\* a single bead alone on the grid yields exactly its index, and every cell
\* of a chain connected only diagonally is in the result.
RuleIsolation ==
  callResult.done =>
    /\ \A i \in Beads :
         (\A j \in Beads : ~Adjacent4(i, j)) => i \in callResult.value
    /\ Cardinality(Beads) = 1 => callResult.value = Beads

RuleIsolationWitness ==
  /\ callResult.done
  /\ callArg.width = 3
  /\ callArg.height = 3
  /\ callArg.cells = << 0, 0, 1, 1, 0, 0, 0, 1, 0 >>
  /\ callResult.value = {2, 3, 7}

SingleClusterStable ==
  (callResult.done /\ Cardinality(Beads) >= 2
   /\ \A i \in Beads : ClusterOf({i}) = Beads) =>
    callResult.value = {}

SingleClusterStableWitness ==
  /\ callResult.done
  /\ callArg.width = 3
  /\ callArg.height = 3
  /\ callArg.cells = << 0, 1, 0, 1, 1, 1, 0, 1, 0 >>
  /\ callResult.value = {}

OutOfBounds(index) == index < 0 \/ index >= boardSize.width * boardSize.height

\* C29 - continueStroke(index) changes nothing (no cell, no stroke patch, no
\* history entry) and raises no error when no stroke is in progress or when
\* index is out of bounds (index < 0 or index >= width * height).
ContinueStrokeIgnored ==
  /\ [](\A index \in Indices :
          (~isDrawing \/ OutOfBounds(index)) => continueStroke(Cur, index) = Cur)
  /\ [][ \A index \in Indices :
           (ContinueStroke(index, "none") /\ (~isDrawing \/ OutOfBounds(index))) =>
             UNCHANGED << cells, currentStroke, history, isDrawing, mounted, last >> ]_vars

ContinueStrokeIgnoredWitness ==
  /\ isDrawing
  /\ last.op = "startStroke"
  /\ Len(currentStroke) = 1
  /\ \E index \in Indices : ~OutOfBounds(index) /\ continueStroke(Cur, index) # Cur
  /\ \E index \in Indices : index > 0 /\ OutOfBounds(index)
                            /\ continueStroke(Cur, index) = Cur

\* C30 - startStroke(index) with a paint or erase tool begins a new stroke
\* and discards any in-progress patch set for every index, the bounds check
\* deciding only whether a cell is written: after startStroke with an
\* out-of-bounds index a stroke is in progress with an empty patch set, and a
\* following continueStroke on an in-bounds cell writes that cell.
StartStrokeAlwaysBegins ==
  activeTool # "move" =>
    \A index \in Indices :
      /\ startStroke(Cur, index).isDrawing
      /\ OutOfBounds(index) =>
           /\ startStroke(Cur, index).currentStroke = << >>
           /\ startStroke(Cur, index).cells = cells
           /\ \A k \in Indices :
                (~OutOfBounds(k)
                 /\ cells[k + 1] # getStrokeTargetValue(activeTool, activeColorId)) =>
                  continueStroke(startStroke(Cur, index), k).cells[k + 1]
                    = getStrokeTargetValue(activeTool, activeColorId)

\* calls that edit the grid of the open design
EditCalls == {"startStroke", "continueStroke", "undo", "redo", "clearBoard"}

\* the step is an edit that leaves the grid different from what is stored
BecomesDirty ==
  /\ last'.op \in EditCalls
  /\ cells' # cells
  /\ isStateDirty(persistedSnapshot, cells', boardSize')

\* C31 - First persistence of a draft is immediate: an edit that makes a
\* draft without a design id dirty commits a save in the same step (a fresh
\* id is assigned, the record and the index entry are written, no timer is
\* armed); an edit that makes a design with an id dirty writes nothing in
\* that step and arms the debounce timer for that id.
ImmediateFirstSave ==
  [][ BecomesDirty =>
        IF currentDesignId = NoId
        THEN /\ last'.save = "ok"
             /\ currentDesignId' # NoId
             /\ currentDesignIdRef' = currentDesignId'
             /\ loadDesign(ls, currentDesignId') = NoRec
             /\ loadDesign(ls', currentDesignId') # NoRec
             /\ IndexOfId(ls'.index, currentDesignId') > 0
             /\ timers' = {}
        ELSE /\ last'.save = "none"
             /\ ls' = ls
             /\ currentDesignId' = currentDesignId
             /\ \E t \in timers' : /\ t.scheduledDesignId = currentDesignId
                                   /\ t.id = autosaveTimerRef' ]_vars

\* the grid after the actions of a past are applied in order, and after
\* they are reverted from the last to the first
RECURSIVE ReplayPast(_, _)
ReplayPast(cs, past) ==
  IF Len(past) = 0 THEN cs
  ELSE ReplayPast(applyPatches(cs, past[1].patches, "forward"),
                  SubSeq(past, 2, Len(past)))

RECURSIVE RevertPast(_, _)
RevertPast(cs, past) ==
  IF Len(past) = 0 THEN cs
  ELSE RevertPast(applyPatches(cs, past[Len(past)].patches, "backward"),
                  SubSeq(past, 1, Len(past) - 1))

\* C32 - History stays consistent with the grid under every interleaving of
\* startStroke, continueStroke, endStroke, clearBoard, undo and redo: whenever
\* no stroke is in progress the grid equals the grid at the last history
\* reset (here the blank board the session starts with) with all past actions
\* applied in order, and undoing every past action restores that base grid.
HistoryMatchesGrid ==
  ~isDrawing =>
    /\ cells = ReplayPast(createBlankCells(boardSize), history.past)
    /\ RevertPast(cells, history.past) = createBlankCells(boardSize)

\* the step is a loadDesignById, createNewDesign or resizeBoard that
\* replaced the grid
GridReplaced ==
  \/ \E id \in AllIds :
       LoadDesignById(id, "none") /\ loadDesignById(Cur, id, "none").ret = "true"
  \/ \E sz \in SizeSet :
       \/ CreateNewDesign(sz, "none") /\ createNewDesign(Cur, sz, "none").ret = "true"
       \/ ResizeBoard(sz, "none") /\ createNewDesign(Cur, sz, "none").ret = "true"

\* C33 - History never survives a design switch, even for a stroke in
\* progress: after loadDesignById, createNewDesign or resizeBoard replaced
\* the grid, an endStroke adds no action to the new design's history, so no
\* patch recorded against the old grid can reach the new grid through undo
\* or redo.
NoStrokeAcrossSwitch ==
  [][ GridReplaced =>
        /\ history' = createEmptyHistory
        /\ endStroke(Cur)'.history = createEmptyHistory
        /\ undo(endStroke(Cur))'.cells = cells'
        /\ redo(undo(endStroke(Cur)))'.cells = cells' ]_vars

\* C34 - Not dirty implies persisted: in every reachable state in which a
\* current design id is set and the state is reported not dirty, the store
\* holds a record under that id whose width, height and gridB64 equal the
\* width, the height and the encoding of the cells in memory.
NotDirtyImpliesPersisted ==
  (currentDesignId # NoId /\ ~isDirtyRef) =>
    /\ loadDesign(ls, currentDesignId) # NoRec
    /\ loadDesign(ls, currentDesignId).width = boardSize.width
    /\ loadDesign(ls, currentDesignId).height = boardSize.height
    /\ loadDesign(ls, currentDesignId).gridB64 = encodeGrid(cells)

\* C35 - Index and records stay mutually consistent in every reachable store
\* state, also after the store rejected a write part-way through a save or a
\* delete: every id listed in the gallery index has a stored record and
\* every stored record has an index entry.
IndexMatchesRecords ==
  \A id \in AllIds :
    loadDesign(ls, id) # NoRec <=> IndexOfId(ls.index, id) > 0

\* C36 - A successful save never evicts the design it saves: whenever
\* saveDesign(d) returns normally, d's record and d's index entry are in the
\* store, also when the index is at the cap and d.updatedAt only equals (the
\* clock being non-decreasing, never falls below) the updatedAt of the
\* entries already there.
SaveKeepsSavedDesign ==
  \A d \in SomeDesigns :
    ( /\ \A k \in 1..Len(ls.index) : ls.index[k].updatedAt <= d.updatedAt
      /\ ~saveDesign(ls, d, "none").threw ) =>
      /\ loadDesign(saveDesign(ls, d, "none").ls, d.id) = d
      /\ d.id \in IndexIds(saveDesign(ls, d, "none").ls.index)

\* C37 - The current-design pointer always names an existing record: after
\* every operation, a current design id that is set, in memory or under the
\* current-design key of the store, is the id of a stored design record;
\* this holds also after the first save of a new draft failed.
PointerNamesRecord ==
  /\ currentDesignId # NoId => loadDesign(ls, currentDesignId) # NoRec
  /\ currentDesignIdRef # NoId => loadDesign(ls, currentDesignIdRef) # NoRec
  /\ ls.currentId # NoId => loadDesign(ls, ls.currentId) # NoRec

\* the last call was a loadDesignById that opened a design, and nothing
\* has changed since
JustLoaded == last.op = "loadDesignById" /\ last.ret = "true"

TimerDueIsTimerFire ==
  /\ [](ENABLED << TimerDue >>_<< timers, last >> <=> (mounted /\ timers # {}))
  /\ [][TimerDue <=> \E f \in FailKinds : TimerFire(f)]_vars

\* C39 - Dirty state is eventually persisted: from every state in which a
\* design id is set and the state is dirty (also one reached after an
\* autosave attempt failed), once no further edit or design switch occurs
\* and the store accepts every write, an autosave eventually commits and the
\* state becomes not dirty.
DirtyEventuallySaved ==
  (mounted /\ currentDesignId # NoId /\ isDirtyRef /\ now = MaxClock) ~> ~isDirtyRef

====
